---------------------------- MODULE Spec2Model ----------------------------
(***************************************************************************)
(* A model of verl/utils/tracking.py: the Tracking facade (backend         *)
(* validation, one-time backend initialization, log dispatch) and the      *)
(* MLflow parameter normalizer (_compute_mlflow_params_from_objects,       *)
(* _transform_params_to_json_serializable, _flatten_dict).                 *)
(*                                                                         *)
(* Two specifications share the module:                                    *)
(*   Spec      the life of one Tracking object: __init__ step by step,     *)
(*             then any number of log calls;                               *)
(*   SpecNorm  one call of _compute_mlflow_params_from_objects on a        *)
(*             configuration value drawn from a bounded set.               *)
(***************************************************************************)
EXTENDS Integers, Sequences, FiniteSets, TLC

\* ------------------------------------------------------------------ bounds

\* Longest backend list handed to Tracking.__init__.
MaxBackends == 3

\* Most nodes (containers and leaves) of a configuration value.
MaxNodes == 5

\* ------------------------------------------------- configuration values

(***************************************************************************)
(* A Python value of a configuration is a record [t, s, kids]:             *)
(*   t     its type: "int", "str", "none", "path", "enum", "list",        *)
(*         "dict", "dataclass";                                            *)
(*   s     the text of a scalar or of a path ("" otherwise);               *)
(*   kids  the children in order, each <<key, value>>: a dict's items, a   *)
(*         dataclass's fields, a list's elements (key ""), an Enum         *)
(*         member's stored value (key "value").                            *)
(***************************************************************************)
Val(t, s, kids) == [t |-> t, s |-> s, kids |-> kids]

NoneV == Val("none", "", <<>>)

IntV(n) == Val("int", ToString(n), <<>>)

StrV(s) == Val("str", s, <<>>)

PathV(s) == Val("path", s, <<>>)

EnumV(v) == Val("enum", "", << <<"value", v>> >>)

ListV(xs) == Val("list", "", [i \in DOMAIN xs |-> <<"", xs[i]>>])

DictV(items) == Val("dict", "", items)

\* The names of a dataclass's fields, in declaration order.
FieldName(i) == "f" \o ToString(i)

DataclassV(xs) == Val("dataclass", "", [i \in DOMAIN xs |-> <<FieldName(i), xs[i]>>])

\* ------------------------------------------------ insertion-ordered dicts

(***************************************************************************)
(* A Python dict is its sequence of items <<key, value>> in insertion      *)
(* order, no key twice.                                                    *)
(***************************************************************************)
ItemKeys(items) == {items[i][1] : i \in DOMAIN items}

\* d[k] = v : an existing key keeps its place, a new key goes last.
DictSet(items, k, v) ==
    IF k \in ItemKeys(items)
    THEN [i \in DOMAIN items |-> IF items[i][1] = k THEN <<k, v>> ELSE items[i]]
    ELSE Append(items, <<k, v>>)

RECURSIVE DictMergeFrom(_, _, _)
DictMergeFrom(a, b, i) ==
    IF i > Len(b) THEN a
    ELSE DictMergeFrom(DictSet(a, b[i][1], b[i][2]), b, i + 1)

\* a | b : the items of a, then those of b, b's value winning on a shared key.
DictMerge(a, b) == DictMergeFrom(a, b, 1)

\* A flat mapping (key -> value) as a function; order plays no part in the
\* equality of two Python dicts.
EmptyMap == << >>

MapSet(m, k, v) == [x \in (DOMAIN m) \cup {k} |-> IF x = k THEN v ELSE m[x]]

\* {**a, **b}
MapUpdate(a, b) ==
    [x \in (DOMAIN a) \cup (DOMAIN b) |-> IF x \in DOMAIN b THEN b[x] ELSE a[x]]

\* ------------------------------------ _transform_params_to_json_serializable

RECURSIVE AsDictInner(_)
\* dataclasses.asdict: dataclasses become dicts of their fields, lists and
\* dicts are rebuilt with their members converted, anything else is copied.
AsDictInner(x) ==
    IF x.t \in {"dataclass", "dict"}
    THEN DictV([i \in DOMAIN x.kids |-> <<x.kids[i][1], AsDictInner(x.kids[i][2])>>])
    ELSE IF x.t = "list"
    THEN Val("list", "", [i \in DOMAIN x.kids |-> <<"", AsDictInner(x.kids[i][2])>>])
    ELSE x

RECURSIVE _transform_params_to_json_serializable(_, _)

\* The list branch with the flag lost in the recursion: elements are
\* transformed with convert_list_to_dict = False.
TransformFlagDropped(x, convert_list_to_dict) ==
    IF x.t = "dataclass"
    THEN _transform_params_to_json_serializable(AsDictInner(x), convert_list_to_dict)
    ELSE IF x.t = "dict"
    THEN DictV([i \in DOMAIN x.kids |->
                 <<x.kids[i][1],
                   _transform_params_to_json_serializable(x.kids[i][2], convert_list_to_dict)>>])
    ELSE IF x.t = "list"
    THEN IF convert_list_to_dict
         THEN DictV(DictMerge(<< <<"list_len", IntV(Len(x.kids))>> >>,
                              [i \in DOMAIN x.kids |->
                                <<ToString(i - 1),
                                  _transform_params_to_json_serializable(x.kids[i][2], FALSE)>>]))
         ELSE Val("list", "", [i \in DOMAIN x.kids |->
                 <<"", _transform_params_to_json_serializable(x.kids[i][2], FALSE)>>])
    ELSE IF x.t = "path" THEN StrV(x.s)
    ELSE IF x.t = "enum" THEN x.kids[1][2]
    ELSE x

_transform_params_to_json_serializable(x, convert_list_to_dict) ==
    IF x.t = "dataclass"
    THEN _transform_params_to_json_serializable(AsDictInner(x), convert_list_to_dict)
    ELSE IF x.t = "dict"
    THEN DictV([i \in DOMAIN x.kids |->
                 <<x.kids[i][1],
                   _transform_params_to_json_serializable(x.kids[i][2], convert_list_to_dict)>>])
    ELSE IF x.t = "list"
    THEN IF convert_list_to_dict
         THEN DictV(DictMerge(<< <<"list_len", IntV(Len(x.kids))>> >>,
                              [i \in DOMAIN x.kids |->
                                <<ToString(i - 1),
                                  _transform_params_to_json_serializable(x.kids[i][2],
                                                                         convert_list_to_dict)>>]))
         ELSE Val("list", "", [i \in DOMAIN x.kids |->
                 <<"", _transform_params_to_json_serializable(x.kids[i][2],
                                                              convert_list_to_dict)>>])
    ELSE IF x.t = "path" THEN StrV(x.s)
    ELSE IF x.t = "enum" THEN x.kids[1][2]
    ELSE x

\* ------------------------------------------------------------ _flatten_dict

\* A call's outcome: the value returned, or the exception raised.
Returned(v) == [ok |-> TRUE, val |-> v, exc |-> ""]

Raised(e) == [ok |-> FALSE, val |-> EmptyMap, exc |-> e]

RECURSIVE NormaliseJson(_, _, _, _)
RECURSIVE NormaliseItems(_, _, _, _, _)
\* pandas' _normalise_json: a dict's items are visited in order under the key
\* joined so far; anything else is stored under that key, replacing an entry
\* already there.
NormaliseJson(data, key_string, normalized_dict, separator) ==
    IF data.t = "dict"
    THEN NormaliseItems(data.kids, 1, key_string, normalized_dict, separator)
    ELSE MapSet(normalized_dict, key_string, data)

NormaliseItems(items, i, key_string, normalized_dict, separator) ==
    IF i > Len(items) THEN normalized_dict
    ELSE LET new_key == IF key_string = "" THEN items[i][1]
                        ELSE key_string \o separator \o items[i][1]
         IN  NormaliseItems(items, i + 1, key_string,
                            NormaliseJson(items[i][2], new_key, normalized_dict, separator),
                            separator)

\* pandas' _normalise_json_ordered: the top-level entries that are no dicts
\* first, then the flattened dict-valued ones, which win on a shared key.
NormaliseJsonOrdered(data, separator) ==
    LET top == SelectSeq(data.kids, LAMBDA it : it[2].t # "dict")
        nested == SelectSeq(data.kids, LAMBDA it : it[2].t = "dict")
        top_dict == NormaliseItems(top, 1, "", EmptyMap, separator)
        nested_dict == NormaliseJson(DictV(nested), "", EmptyMap, separator)
    IN  MapUpdate(top_dict, nested_dict)

(***************************************************************************)
(* pd.json_normalize(raw, sep=sep).to_dict(orient='records')[0]: the one   *)
(* row of the table of raw's flattened entries.  A table of one row and no *)
(* column has no records (to_dict zips the columns), so [0] raises         *)
(* IndexError; json_normalize itself refuses what is neither a dict nor a  *)
(* list.  The values come back as they went in.                            *)
(***************************************************************************)
_flatten_dict(raw, sep) ==
    IF raw.t # "dict" THEN Raised("NotImplementedError")
    ELSE LET row == NormaliseJsonOrdered(raw, sep)
         IN  IF DOMAIN row = {} THEN Raised("IndexError") ELSE Returned(row)

\* --------------------------------------- _compute_mlflow_params_from_objects

\* Without the None check: None goes through the transform and the flattening.
ComputeNoNoneCheck(params) ==
    LET r == _flatten_dict(_transform_params_to_json_serializable(params, TRUE), "/")
    IN  [calls |-> <<"_transform_params_to_json_serializable", "_flatten_dict">>,
         ok |-> r.ok, val |-> r.val, exc |-> r.exc]

\* The outcome of the call and, in calls, the helpers it invoked.
_compute_mlflow_params_from_objects(params) ==
    IF params = NoneV
    THEN [calls |-> <<>>, ok |-> TRUE, val |-> EmptyMap, exc |-> ""]
    ELSE LET r == _flatten_dict(_transform_params_to_json_serializable(params, TRUE), "/")
         IN  [calls |-> <<"_transform_params_to_json_serializable", "_flatten_dict">>,
              ok |-> r.ok, val |-> r.val, exc |-> r.exc]

\* ------------------------------------------ the configurations considered

Leaves == {IntV(10), PathV("p")}

\* Mapping keys; one contains the separator.
KeyNames == {"a", "a/a"}

RECURSIVE Size(_)
RECURSIVE SizeFrom(_, _)
\* The nodes of a value: itself and those of its children.
Size(x) == 1 + SizeFrom(x.kids, 1)

SizeFrom(kids, k) == IF k > Len(kids) THEN 0 ELSE Size(kids[k][2]) + SizeFrom(kids, k + 1)

\* What a container may be given as one more member: a leaf, an empty
\* container, or an Enum member storing a leaf or an empty container.
NewMembers ==
    LET plain == Leaves \cup {ListV(<< >>), DictV(<< >>), DataclassV(<< >>)}
    IN  plain \cup {EnumV(v) : v \in Leaves \cup {ListV(<< >>), DictV(<< >>)}}

\* The keys under which container x takes one more member.
FreeKeys(x) ==
    CASE x.t = "dict" -> KeyNames \ ItemKeys(x.kids)
      [] x.t = "dataclass" -> {FieldName(Len(x.kids) + 1)}
      [] x.t = "list" -> {""}
      [] OTHER -> {}

RECURSIVE Grow(_, _)
\* The values x becomes when one member of at most room nodes is added at the
\* end of x or of the last member of x, of that one's last member, and so on.
Grow(x, room) ==
    LET here == {Val(x.t, x.s, Append(x.kids, <<k, m>>)) :
                    k \in FreeKeys(x), m \in {c \in NewMembers : Size(c) <= room}}
        last == IF Len(x.kids) = 0 THEN {}
                ELSE {Val(x.t, x.s, [x.kids EXCEPT ![Len(x.kids)] = <<@[1], g>>]) :
                         g \in Grow(x.kids[Len(x.kids)][2], room)}
    IN  here \cup last

\* What is handed over as config: None, or a mapping, a record or a sequence.
EmptyConfigs == {NoneV, DictV(<< >>), ListV(<< >>), DataclassV(<< >>)}

\* ------------------------------------------------------------------ state

VARIABLES
    pc,               \* where the Tracking object is: "new", "validate", "wandb",
                      \* "mlflow", "console" (inside __init__), "ready", "log",
                      \* "log_returned", "log_raised", "raised" (__init__ failed)
    default_backend,  \* __init__'s argument: [isStr, names]
    api_key,          \* whether WANDB_API_KEY is set in the environment
    config,           \* __init__'s config argument
    i,                \* the validation loop's position in default_backend
    logger,           \* self.logger: the backend names in insertion order
    events,           \* the calls made to the backends' libraries, in order
    exc,              \* the exception __init__ or log ended with ("" if none)
    call,             \* the arguments of the log call in progress or ended last
    idx,              \* that log call's position in self.logger.items()
    delivered,        \* the native log calls that log call completed, in order
    params,           \* the argument of _compute_mlflow_params_from_objects
    npc,              \* "idle", "call" (not yet applied) or "done"
    result            \* what the call returned or raised, and the helpers it invoked

vars == <<pc, default_backend, api_key, config, i, logger, events, exc, call, idx,
          delivered, params, npc, result>>

trackingVars == <<pc, default_backend, api_key, config, i, logger, events, exc, call,
                  idx, delivered>>

normVars == <<params, npc, result>>

\* ------------------------------------------------------------- Tracking

supported_backend == <<"wandb", "mlflow", "console">>

Supported == {supported_backend[k] : k \in DOMAIN supported_backend}

\* The names a caller may write: the supported ones, the deprecated alias and
\* one that is not supported.
RequestedNames == Supported \cup {"tracking", "tensorboard"}

BackendLists == UNION {[1..n -> RequestedNames] : n \in 0..MaxBackends}

\* default_backend as given: one name (a str) or a list of names.
BackendArgs ==
    {[isStr |-> TRUE, names |-> <<b>>] : b \in RequestedNames}
    \cup {[isStr |-> FALSE, names |-> l] : l \in BackendLists}

\* The config values Tracking is constructed with.
TrackingConfigs == {NoneV, DictV(<< <<"a", IntV(10)>> >>), DictV(<< >>)}

DataValues == {"d1", "d2"}

StepValues == {0, 1}

\* log's backend argument: None, or a collection of names.
BackendFilters ==
    {[isNone |-> TRUE, names |-> {}]}
    \cup {[isNone |-> FALSE, names |-> S] : S \in SUBSET (Supported \cup {"tracking"})}

NoCall == [data |-> "", step |-> 0, backend |-> [isNone |-> TRUE, names |-> {}]]

Event(c, a) == [call |-> c, arg |-> a]

Ev(c) == Event(c, EmptyMap)

InList(name, l) == \E k \in DOMAIN l : l[k] = name

\* The new name put first instead of last.
RegistrySetFirst(reg, name) == IF InList(name, reg) THEN reg ELSE <<name>> \o reg

\* self.logger[name] = handle: a name already there keeps its place.
RegistrySet(reg, name) == IF InList(name, reg) THEN reg ELSE Append(reg, name)

\* The library call behind each handle's log method.
NativeLog(name) ==
    CASE name = "wandb" -> "wandb.log"
      [] name = "mlflow" -> "mlflow.log_metrics"
      [] OTHER -> "LocalLogger.log"

NoResult == [calls |-> << >>, ok |-> FALSE, val |-> EmptyMap, exc |-> "pending"]

Init ==
    /\ pc = "new"
    /\ default_backend \in BackendArgs
    /\ api_key \in BOOLEAN
    /\ config \in TrackingConfigs
    /\ i = 1
    /\ logger = << >>
    /\ events = << >>
    /\ exc = ""
    /\ call = NoCall
    /\ idx = 1
    /\ delivered = << >>
    /\ params = NoneV
    /\ npc = "idle"
    /\ result = NoResult

\* __init__, lines 38-39: a single name becomes a list of one name.
Normalize ==
    /\ pc = "new"
    /\ default_backend' = [isStr |-> FALSE, names |-> default_backend.names]
    /\ pc' = "validate"
    /\ UNCHANGED <<api_key, config, i, logger, events, exc, call, idx, delivered>>
    /\ UNCHANGED normVars

\* The loop's turn with the assertion compiled away.
ValidateNameNoAssert(name) ==
    IF name = "tracking"
    THEN /\ events' = Append(events, Ev("warnings.warn"))
         /\ i' = i + 1
         /\ UNCHANGED <<pc, exc>>
    ELSE /\ i' = i + 1
         /\ UNCHANGED <<pc, exc, events>>

\* What one turn of the validation loop does with the name at position i.
ValidateName(name) ==
    IF name = "tracking"
    THEN /\ events' = Append(events, Ev("warnings.warn"))
         /\ i' = i + 1
         /\ UNCHANGED <<pc, exc>>
    ELSE IF name \in Supported
    THEN /\ i' = i + 1
         /\ UNCHANGED <<pc, exc, events>>
    ELSE /\ pc' = "raised"
         /\ exc' = "AssertionError"
         /\ UNCHANGED <<i, events>>

\* __init__, lines 40-46: one turn of the validation loop.
ValidateNext ==
    /\ pc = "validate"
    /\ i <= Len(default_backend.names)
    /\ ValidateName(default_backend.names[i])
    /\ UNCHANGED <<default_backend, api_key, config, logger, call, idx, delivered>>
    /\ UNCHANGED normVars

\* __init__, line 48: the loop is over, the registry starts empty.
ValidateDone ==
    /\ pc = "validate"
    /\ i > Len(default_backend.names)
    /\ logger' = << >>
    /\ pc' = "wandb"
    /\ UNCHANGED <<default_backend, api_key, config, i, events, exc, call, idx, delivered>>
    /\ UNCHANGED normVars

\* Line 51 without the deprecated alias.
WandbRequestedNoAlias(names) == InList("wandb", names)

\* The condition of line 51.
WandbRequested(names) == InList("wandb", names) \/ InList("tracking", names)

\* wandb.init called once for every occurrence of 'wandb' or 'tracking' in the
\* list instead of once.
InitWandbPerName ==
    /\ pc = "wandb"
    /\ LET n == Cardinality({k \in DOMAIN default_backend.names :
                               default_backend.names[k] \in {"wandb", "tracking"}})
           login == IF api_key /\ n > 0 THEN <<Ev("wandb.login")>> ELSE << >>
       IN  /\ events' = events \o login \o [k \in 1..n |-> Ev("wandb.init")]
           /\ logger' = IF n > 0 THEN RegistrySet(logger, "wandb") ELSE logger
    /\ pc' = "mlflow"
    /\ UNCHANGED <<default_backend, api_key, config, i, exc, call, idx, delivered>>
    /\ UNCHANGED normVars

\* __init__, lines 50-67.  wandb.login and wandb.init are the library's: each
\* may raise, and what is raised leaves __init__.
InitWandb ==
    /\ pc = "wandb"
    /\ IF WandbRequested(default_backend.names)
       THEN LET login == IF api_key THEN <<Ev("wandb.login")>> ELSE << >>
            IN  \/ /\ api_key
                   /\ events' = events \o login
                   /\ pc' = "raised"
                   /\ exc' = "BackendError"
                   /\ UNCHANGED logger
                \/ /\ events' = events \o login \o <<Ev("wandb.init")>>
                   /\ pc' = "raised"
                   /\ exc' = "BackendError"
                   /\ UNCHANGED logger
                \/ /\ events' = events \o login \o <<Ev("wandb.init")>>
                   /\ logger' = RegistrySet(logger, "wandb")
                   /\ pc' = "mlflow"
                   /\ UNCHANGED exc
       ELSE /\ pc' = "mlflow"
            /\ UNCHANGED <<events, logger, exc>>
    /\ UNCHANGED <<default_backend, api_key, config, i, call, idx, delivered>>
    /\ UNCHANGED normVars

\* __init__, lines 69-75.  The parameters are computed between start_run and
\* log_params (the helpers the computation invokes are recorded as events); an
\* exception of the computation leaves __init__ as well.
InitMlflow ==
    /\ pc = "mlflow"
    /\ IF InList("mlflow", default_backend.names)
       THEN LET r == _compute_mlflow_params_from_objects(config)
                start == <<Ev("mlflow.start_run")>> \o [k \in DOMAIN r.calls |-> Ev(r.calls[k])]
            IN  \/ /\ events' = events \o start
                   /\ pc' = "raised"
                   /\ exc' = "BackendError"
                   /\ UNCHANGED logger
                \/ /\ ~r.ok
                   /\ events' = events \o start
                   /\ pc' = "raised"
                   /\ exc' = r.exc
                   /\ UNCHANGED logger
                \/ /\ r.ok
                   /\ events' = events \o start \o <<Event("mlflow.log_params", r.val)>>
                   /\ pc' = "raised"
                   /\ exc' = "BackendError"
                   /\ UNCHANGED logger
                \/ /\ r.ok
                   /\ events' = events \o start \o <<Event("mlflow.log_params", r.val)>>
                   /\ logger' = RegistrySet(logger, "mlflow")
                   /\ pc' = "console"
                   /\ UNCHANGED exc
       ELSE /\ pc' = "console"
            /\ UNCHANGED <<events, logger, exc>>
    /\ UNCHANGED <<default_backend, api_key, config, i, call, idx, delivered>>
    /\ UNCHANGED normVars

\* __init__, lines 77-80.
InitConsole ==
    /\ pc = "console"
    /\ IF InList("console", default_backend.names)
       THEN /\ events' = Append(events, Ev("LocalLogger"))
            /\ logger' = RegistrySet(logger, "console")
       ELSE UNCHANGED <<events, logger>>
    /\ pc' = "ready"
    /\ UNCHANGED <<default_backend, api_key, config, i, exc, call, idx, delivered>>
    /\ UNCHANGED normVars

Constructed == pc \in {"ready", "log", "log_returned", "log_raised"}

\* log is called on a constructed object (lines 82-83).
LogStart ==
    /\ pc \in {"ready", "log_returned", "log_raised"}
    /\ \E d \in DataValues, s \in StepValues, b \in BackendFilters :
          call' = [data |-> d, step |-> s, backend |-> b]
    /\ idx' = 1
    /\ delivered' = << >>
    /\ exc' = ""
    /\ pc' = "log"
    /\ UNCHANGED <<default_backend, api_key, config, i, logger, events>>
    /\ UNCHANGED normVars

\* Line 84 with the filter ignored.
SelectedAlways(name, backend) == TRUE

\* The condition of line 84.
Selected(name, backend) == backend.isNone \/ name \in backend.names

\* The loop's turn with the native call's exception caught: the loop goes on.
LogNextSuppressed ==
    /\ pc = "log"
    /\ idx <= Len(logger)
    /\ IF Selected(logger[idx], call.backend)
       THEN \/ /\ delivered' = Append(delivered,
                                      [backend |-> logger[idx], call |-> NativeLog(logger[idx]),
                                       data |-> call.data, step |-> call.step])
               /\ idx' = idx + 1
               /\ UNCHANGED <<pc, exc>>
            \/ /\ exc' = "BackendError"
               /\ idx' = idx + 1
               /\ UNCHANGED <<delivered, pc>>
       ELSE /\ idx' = idx + 1
            /\ UNCHANGED <<delivered, pc, exc>>
    /\ UNCHANGED <<default_backend, api_key, config, i, logger, events, call>>
    /\ UNCHANGED normVars

\* Lines 83-85: one turn of log's loop over self.logger.items().  The native
\* call may raise; log catches nothing.
LogNext ==
    /\ pc = "log"
    /\ idx <= Len(logger)
    /\ IF Selected(logger[idx], call.backend)
       THEN \/ /\ delivered' = Append(delivered,
                                      [backend |-> logger[idx], call |-> NativeLog(logger[idx]),
                                       data |-> call.data, step |-> call.step])
               /\ idx' = idx + 1
               /\ UNCHANGED <<pc, exc>>
            \/ /\ pc' = "log_raised"
               /\ exc' = "BackendError"
               /\ UNCHANGED <<delivered, idx>>
       ELSE /\ idx' = idx + 1
            /\ UNCHANGED <<delivered, pc, exc>>
    /\ UNCHANGED <<default_backend, api_key, config, i, logger, events, call>>
    /\ UNCHANGED normVars

\* The loop is over: log returns.
LogReturn ==
    /\ pc = "log"
    /\ idx > Len(logger)
    /\ pc' = "log_returned"
    /\ UNCHANGED <<default_backend, api_key, config, i, logger, events, exc, call, idx,
                   delivered>>
    /\ UNCHANGED normVars

Next ==
    \/ Normalize
    \/ ValidateNext
    \/ ValidateDone
    \/ InitWandb
    \/ InitMlflow
    \/ InitConsole
    \/ LogStart
    \/ LogNext
    \/ LogReturn

Spec == Init /\ [][Next]_vars

\* ---------------------------------------------------- the normalizer alone

InitNorm ==
    /\ pc = "new"
    /\ default_backend = [isStr |-> TRUE, names |-> <<"console">>]
    /\ api_key = FALSE
    /\ config = NoneV
    /\ i = 1
    /\ logger = << >>
    /\ events = << >>
    /\ exc = ""
    /\ call = NoCall
    /\ idx = 1
    /\ delivered = << >>
    /\ params \in EmptyConfigs
    /\ npc = "call"
    /\ result = NoResult

\* The caller puts one more member into the configuration it is assembling.
Assemble ==
    /\ npc = "call"
    /\ params # NoneV
    /\ params' \in Grow(params, MaxNodes - Size(params))
    /\ UNCHANGED <<npc, result>>
    /\ UNCHANGED trackingVars

\* One call of _compute_mlflow_params_from_objects(params).
Compute ==
    /\ npc = "call"
    /\ result' = _compute_mlflow_params_from_objects(params)
    /\ npc' = "done"
    /\ UNCHANGED params
    /\ UNCHANGED trackingVars

NextNorm == Assemble \/ Compute

SpecNorm == InitNorm /\ [][NextNorm]_vars

\* =========================================================== the claims
\* ---------------------------------------------------- Tracking (Spec)

RequestedList == default_backend.names

RegistryKeys == {logger[k] : k \in DOMAIN logger}

\* The backend a requested name stands for.
Canonical(name) == IF name = "tracking" THEN "wandb" ELSE name

RequestedBackends == {Canonical(RequestedList[k]) : k \in DOMAIN RequestedList}

IsUnsupported(name) == name \notin {"wandb", "mlflow", "console", "tracking"}

HasUnsupported == \E k \in DOMAIN RequestedList : IsUnsupported(RequestedList[k])

FirstUnsupported ==
    CHOOSE k \in DOMAIN RequestedList :
        /\ IsUnsupported(RequestedList[k])
        /\ \A j \in 1..(k - 1) : ~IsUnsupported(RequestedList[j])

CountEvents(c) == Cardinality({k \in DOMAIN events : events[k].call = c})

CountDelivered(name) == Cardinality({k \in DOMAIN delivered : delivered[k].backend = name})

\* The place of a backend in the fixed order wandb, mlflow, console.
Rank(name) == CASE name = "wandb" -> 1 [] name = "mlflow" -> 2 [] OTHER -> 3

\* C1: the registry never holds a name outside wandb, mlflow, console, and
\* once the object is constructed its keys are exactly the distinct requested
\* names, with 'tracking' standing for 'wandb', each key once.
C1_RegistryIsRequestedSet ==
    /\ RegistryKeys \subseteq {"wandb", "mlflow", "console"}
    /\ Constructed =>
          /\ RegistryKeys = RequestedBackends
          /\ Len(logger) = Cardinality(RegistryKeys)

\* C1's case: constructed from the alias alone, the registry is {wandb}.
C1_Witness ==
    /\ Constructed
    /\ RequestedList = <<"tracking">>
    /\ logger = <<"wandb">>

\* C2: with an unsupported name anywhere in the list, __init__ never gets past
\* the validation loop (the loop cannot pass the name, so it ends only with
\* the assertion's error), and nothing has been initialized: no library call
\* but the deprecation warning was made and the registry holds nothing.
C2_UnsupportedFailsBeforeInit ==
    HasUnsupported =>
        /\ pc \in {"new", "validate", "raised"}
        /\ pc = "raised" => exc = "AssertionError"
        /\ pc = "validate" => i <= FirstUnsupported
        /\ logger = << >>
        /\ \A k \in DOMAIN events : events[k].call = "warnings.warn"

\* C2's case: the unsupported name in the middle, supported names around it.
C2_Witness ==
    /\ RequestedList = <<"wandb", "tensorboard", "console">>
    /\ pc = "raised"
    /\ exc = "AssertionError"

\* C3: during and after a log call, every native log call made is the call of
\* a registry backend that the backend argument names (or of any, when the
\* argument is unset), carries the call's data and step, and no backend is
\* called twice; when log returns, every such backend was called exactly once.
C3_LogReachesExactlyTheNamed ==
    Constructed =>
        /\ \A k \in DOMAIN delivered :
              /\ delivered[k].backend \in RegistryKeys
              /\ call.backend.isNone \/ delivered[k].backend \in call.backend.names
              /\ delivered[k].data = call.data
              /\ delivered[k].step = call.step
              /\ delivered[k].call =
                    (CASE delivered[k].backend = "wandb" -> "wandb.log"
                       [] delivered[k].backend = "mlflow" -> "mlflow.log_metrics"
                       [] OTHER -> "LocalLogger.log")
        /\ \A name \in RegistryKeys : CountDelivered(name) <= 1
        /\ pc = "log_returned" =>
              \A name \in RegistryKeys :
                  (call.backend.isNone \/ name \in call.backend.names)
                      => CountDelivered(name) = 1

\* C3's case: three backends constructed, log called for mlflow alone.
C3_Witness ==
    /\ pc = "log_returned"
    /\ Len(logger) = 3
    /\ ~call.backend.isNone
    /\ call.backend.names = {"mlflow"}
    /\ Len(delivered) = 1
    /\ delivered[1].backend = "mlflow"

\* C7: constructing with 'mlflow' and config None never ends with an error of
\* the normalizer, invokes neither the transform nor the flattening, and logs
\* the empty mapping as parameters, after the run was started.
C7_NoneConfigLogsEmptyParams ==
    (config = NoneV /\ InList("mlflow", RequestedList)) =>
        /\ exc \notin {"IndexError", "NotImplementedError"}
        /\ CountEvents("_transform_params_to_json_serializable") = 0
        /\ CountEvents("_flatten_dict") = 0
        /\ \A k \in DOMAIN events :
              events[k].call = "mlflow.log_params" =>
                  /\ events[k].arg = << >>
                  /\ \E j \in 1..(k - 1) : events[j].call = "mlflow.start_run"
        /\ Constructed => CountEvents("mlflow.log_params") = 1

\* C7's case: constructed with mlflow and no configuration.
C7_Witness ==
    /\ Constructed
    /\ config = NoneV
    /\ RequestedList = <<"mlflow">>
    /\ events = <<[call |-> "mlflow.start_run", arg |-> << >>],
                  [call |-> "mlflow.log_params", arg |-> << >>]>>

\* The registry backends before position n that the log call in progress names.
TargetedBefore(n) ==
    SelectSeq(SubSeq(logger, 1, n - 1),
              LAMBDA name : call.backend.isNone \/ name \in call.backend.names)

\* C8 (state part): an error of a native log call ends the log call with that
\* error; at that point the failing backend was a targeted one, the targeted
\* backends before it in registry order were each called once, in that order,
\* with the data and step, and no backend after it was called.
C8_FailureState ==
    (Constructed /\ exc # "") =>
        /\ pc = "log_raised"
        /\ exc = "BackendError"
        /\ idx \in DOMAIN logger
        /\ call.backend.isNone \/ logger[idx] \in call.backend.names
        /\ Len(delivered) = Len(TargetedBefore(idx))
        /\ \A k \in DOMAIN delivered :
              /\ delivered[k].backend = TargetedBefore(idx)[k]
              /\ delivered[k].data = call.data
              /\ delivered[k].step = call.step

\* C8: the state part above always holds, and no step of a log call, the
\* failing one included, changes the registry.
C8_FailurePropagates ==
    /\ []C8_FailureState
    /\ [][pc = "log" => logger' = logger]_vars

\* C8's case: the second of three targeted backends failed.
C8_Witness ==
    /\ pc = "log_raised"
    /\ logger = <<"wandb", "mlflow", "console">>
    /\ call.backend.isNone
    /\ idx = 2
    /\ Len(delivered) = 1
    /\ delivered[1].backend = "wandb"

\* The positions of the events of call c.
EventsAt(c) == {k \in DOMAIN events : events[k].call = c}

\* C9: whatever the list repeats, no backend is initialized twice and none
\* that was not requested is initialized at all; once constructed, every
\* requested backend was initialized exactly once; wandb.login is called only
\* with the API key set, and then before wandb.init.
C9_InitializedOncePerBackend ==
    /\ \A c \in {"wandb.login", "wandb.init", "mlflow.start_run", "mlflow.log_params",
                 "LocalLogger"} : CountEvents(c) <= 1
    /\ ~("wandb" \in RequestedBackends) =>
          (CountEvents("wandb.init") = 0 /\ CountEvents("wandb.login") = 0)
    /\ ~("mlflow" \in RequestedBackends) =>
          (CountEvents("mlflow.start_run") = 0 /\ CountEvents("mlflow.log_params") = 0)
    /\ ~("console" \in RequestedBackends) => CountEvents("LocalLogger") = 0
    /\ Constructed =>
          /\ "wandb" \in RequestedBackends => CountEvents("wandb.init") = 1
          /\ "mlflow" \in RequestedBackends =>
                (CountEvents("mlflow.start_run") = 1 /\ CountEvents("mlflow.log_params") = 1)
          /\ "console" \in RequestedBackends => CountEvents("LocalLogger") = 1
    /\ CountEvents("wandb.login") > 0 => api_key
    /\ \A k \in EventsAt("wandb.login"), j \in EventsAt("wandb.init") : k < j

\* C9's case: 'wandb' twice and its alias, with the API key set.
C9_Witness ==
    /\ Constructed
    /\ RequestedList = <<"wandb", "tracking", "wandb">>
    /\ api_key
    /\ CountEvents("wandb.login") = 1
    /\ CountEvents("wandb.init") = 1

\* The backend an initialization call belongs to (0: none).
InitRank(c) ==
    CASE c \in {"wandb.login", "wandb.init"} -> 1
      [] c \in {"mlflow.start_run", "mlflow.log_params"} -> 2
      [] c = "LocalLogger" -> 3
      [] OTHER -> 0

\* C10 (state part): the initialization calls, the registry's entries and a
\* log call's native calls all come in the order wandb, mlflow, console.
C10_OrderState ==
    /\ \A j, k \in DOMAIN events :
          (j < k /\ InitRank(events[j].call) > 0 /\ InitRank(events[k].call) > 0)
              => InitRank(events[j].call) <= InitRank(events[k].call)
    /\ \A j, k \in DOMAIN logger : j < k => Rank(logger[j]) < Rank(logger[k])
    /\ \A j, k \in DOMAIN delivered :
          j < k => Rank(delivered[j].backend) < Rank(delivered[k].backend)

\* C10: that order holds whatever the order of the requested list, and once
\* the object is constructed no step (log's steps are the only ones) changes
\* the registry.
C10_FixedOrder ==
    /\ []C10_OrderState
    /\ [][Constructed => logger' = logger]_vars

\* C10's case: requested in the opposite order, logged to all three.
C10_Witness ==
    /\ RequestedList = <<"console", "mlflow", "wandb">>
    /\ pc = "log_returned"
    /\ logger = <<"wandb", "mlflow", "console">>
    /\ Len(delivered) = 3

\* ------------------------------------------------ the normalizer (SpecNorm)

\* The key path P extended by key k.
Join(P, k) == IF P = "" THEN k ELSE P \o "/" \o k

IsJsonScalar(v) == v.t \in {"int", "str", "bool", "none"}

RECURSIVE StoredEntries(_, _)
\* The entries <<key, value>> of a value an Enum member stores, kept as it is:
\* only its mappings are opened, by the flattening.
StoredEntries(v, P) ==
    IF v.t = "dict"
    THEN UNION {StoredEntries(v.kids[k][2], Join(P, v.kids[k][1])) : k \in DOMAIN v.kids}
    ELSE {<<P, v>>}

RECURSIVE Entries(_, _)
\* The entries <<key, value>> the specification gives value x reached by key
\* path P: a mapping's or record's members under their keys, a sequence's
\* length under list_len and its elements under their indices, a path as its
\* string, an Enum member as the value it stores.
Entries(x, P) ==
    CASE x.t \in {"dict", "dataclass"} ->
            UNION {Entries(x.kids[k][2], Join(P, x.kids[k][1])) : k \in DOMAIN x.kids}
      [] x.t = "list" ->
            {<<Join(P, "list_len"), [t |-> "int", s |-> ToString(Len(x.kids)), kids |-> << >>]>>}
            \cup UNION {Entries(x.kids[k][2], Join(P, ToString(k - 1))) : k \in DOMAIN x.kids}
      [] x.t = "path" -> {<<P, [t |-> "str", s |-> x.s, kids |-> << >>]>>}
      [] x.t = "enum" -> StoredEntries(x.kids[1][2], P)
      [] OTHER -> {<<P, x>>}

RECURSIVE SequenceEntries(_, _)
\* Those of the entries that come from the sequences reached through
\* mappings, records and sequences.
SequenceEntries(x, P) ==
    CASE x.t \in {"dict", "dataclass"} ->
            UNION {SequenceEntries(x.kids[k][2], Join(P, x.kids[k][1])) : k \in DOMAIN x.kids}
      [] x.t = "list" -> Entries(x, P)
      [] OTHER -> {}

\* No two entries of the configuration come under one flat key with two values.
NoClash(x) ==
    \A e1, e2 \in Entries(x, "") : e1[1] = e2[1] => e1[2] = e2[2]

HasEntry(e) == result.ok /\ e[1] \in DOMAIN result.val /\ result.val[e[1]] = e[2]

\* C4 as claimed: every value of the mapping returned is a JSON scalar.
C4_LeavesAreJsonScalars ==
    (npc = "done" /\ result.ok) =>
        \A k \in DOMAIN result.val : IsJsonScalar(result.val[k])

\* The keys the specification gives the configuration's entries.
EntryKeys(x) == {e[1] : e \in Entries(x, "")}

RECURSIVE IsNestedMapping(_)
\* A mapping whose values are scalars or such mappings.
IsNestedMapping(x) ==
    /\ x.t = "dict"
    /\ \A k \in DOMAIN x.kids :
          IsJsonScalar(x.kids[k][2]) \/ IsNestedMapping(x.kids[k][2])

RECURSIVE LeafCount(_)
RECURSIVE LeafCountFrom(_, _)
\* The scalar leaves of a nested mapping.
LeafCount(x) == IF x.t = "dict" THEN LeafCountFrom(x.kids, 1) ELSE 1

LeafCountFrom(kids, k) ==
    IF k > Len(kids) THEN 0 ELSE LeafCount(kids[k][2]) + LeafCountFrom(kids, k + 1)

\* C6 as claimed: for a nested mapping the call returns a mapping with one
\* entry per scalar leaf, under the leaf's joined key path, holding its value.
C6_OneEntryPerLeaf ==
    (npc = "done" /\ IsNestedMapping(params)) =>
        /\ result.ok
        /\ Cardinality(DOMAIN result.val) = LeafCount(params)
        /\ \A e \in Entries(params, "") : HasEntry(e)

====
